---- MODULE Spec2Model ----
(***************************************************************************)
(* Model of the Polymarket trade scanner (main.py), of the auxiliary       *)
(* volume paginator of the grader (grade_users.py) and of the scoring of   *)
(* the graded wallets (process_grades.py).                                 *)
(*                                                                         *)
(* Spec      : the scanner process: launch, job(), the schedule loop, the  *)
(*             two checkpoint files, the trade feed, the clock, and the    *)
(*             interruption of the process.                                *)
(* SpecAllOk : the scanner left to run, every request answered 200.        *)
(* SpecFetch : fetch_trades_since on a feed that does not change;          *)
(*             SpecFetchLive adds that the loop keeps going.               *)
(* SpecJob   : one run of job() over checkpoint files in any state and a   *)
(*             feed with a malformed record and mixed-case addresses.      *)
(* SpecVol   : one call of query_additional_volume.                        *)
(* SpecGrades: one call of process_grades.                                 *)
(***************************************************************************)
EXTENDS Integers, Sequences, FiniteSets, TLC

VARIABLES
    clock,        \* utc_now(), in clock units
    feed,         \* the Data-API trade feed, newest first
    seenFile,     \* seen_users.txt
    tsFile,       \* last_check.txt
    pc,           \* position of the scanner process
    nextRun,      \* next_run of the scheduled job
    seen_users,   \* job(): local seen_users
    last_ts,      \* job(): local last_ts, fetch_trades_since(): since_ts
    trades,       \* fetch_trades_since(): local trades
    offset,       \* fetch_trades_since(): local offset
    ts_arg,       \* save_last_timestamp(): parameter ts
    reqLog,       \* history: the page requests of the current fetch
    pre,          \* history: the two files as they were when the run started
    maxTs,        \* history: the largest timestamp any run has written
    quiet,        \* history: no trade was added since the last run took its timestamp
    quietRun,     \* history: the run that just returned was such a quiet one
    runs,         \* history: the number of job() calls in progress
    interrupts,   \* history: how often the process has been interrupted
    amount_fields, \* query_additional_volume(): parameter amount_fields
    volN,         \* number of items the subgraph holds for the wallet
    skip,         \* query_additional_volume(): local skip
    page,         \* query_additional_volume(): local page
    total,        \* query_additional_volume(): local total, in raw units
    volPc,        \* position of the query_additional_volume call
    volLog,       \* history: the page requests of the call
    raw_metrics,  \* process_grades(): parameter raw_metrics
    grades,       \* process_grades(): local grades, the rows of grades.csv
    grades_sorted, \* process_grades(): local grades_sorted, the rows of grades_sorted.csv
    gradePc       \* position of the process_grades call

scanVars == <<clock, feed, seenFile, tsFile, pc, nextRun, seen_users, last_ts,
              trades, offset, ts_arg, reqLog, pre, maxTs, quiet, quietRun,
              runs, interrupts>>
volVars == <<amount_fields, volN, skip, page, total, volPc, volLog>>
gradeVars == <<raw_metrics, grades, grades_sorted, gradePc>>
vars == <<scanVars, volVars, gradeVars>>

----------------------------------------------------------------------------
(* Bounds of the model. *)

\* the clock runs from 0 to MaxClock
MaxClock == 2
\* the feed holds at most MaxFeed trades in Spec
MaxFeed == 2
\* the feed holds at most MaxFetchFeed trades in SpecFetch
MaxFetchFeed == 7
\* the process is interrupted at most MaxInterrupts times
MaxInterrupts == 1
\* wallets are 1..NumWallets; their order is the order of sorted()
NumWallets == 2
\* main.py:20 sets 500; scaled so that full pages fit the bounded feed
FETCH_LIMIT == 2
\* main.py:21 sets 4 (minutes); scaled to the bounded clock
SCAN_INTERVAL_MIN == 1
\* the feed holds at most MaxJobFeed trades in SpecJob
MaxJobFeed == 3
\* the subgraph holds at most MaxItems items for a wallet
MaxItems == 1050
\* raw_metrics holds at most MaxGradeList wallets
MaxGradeList == 3

\* grade_users.py:116, first: 100
FIRST == 100
\* grade_users.py:109
max_pages == 10

Wallets == 1..NumWallets
HttpStatus == {200, 429, 500}

----------------------------------------------------------------------------
(* Helpers of main.py. *)

Last(s) == s[Len(s)]

\* "key" in t, for a record t of the feed
Has(t, key) == key \in DOMAIN t

\* load_seen_users: the non-empty lines of the file, or set() when absent
LoadSeenUsers(f) == IF f.exists THEN f.lines ELSE {}

\* what the try block of load_seen_users raises (lines 29-30): open() of an
\* absent file
LoadSeenError(f) == IF f.exists THEN "none" ELSE "FileNotFoundError"

\* except FileNotFoundError, line 31
LoadSeenCaught == {"FileNotFoundError"}

\* load_last_timestamp: int(file) or, on FileNotFoundError / ValueError
\* (int("") of a file left empty), now minus the scan interval
LoadLastTimestamp(f, now) ==
    IF f.kind = "int" THEN f.val ELSE now - SCAN_INTERVAL_MIN

\* what the try block of load_last_timestamp raises (lines 41-42): open() of
\* an absent file, int() of an empty file or of text that is no integer
LoadTsError(f) ==
    IF f.kind = "absent" THEN "FileNotFoundError"
    ELSE IF f.kind \in {"empty", "text"} THEN "ValueError"
    ELSE "none"

LoadTsCaughtNotFoundOnly == {"FileNotFoundError"}

\* except (FileNotFoundError, ValueError), line 43
LoadTsCaught == {"FileNotFoundError", "ValueError"}

\* an exception leaves load_seen_users or load_last_timestamp, and with it job()
LoadRaises(seenF, tsF) ==
    \/ LoadSeenError(seenF) \notin LoadSeenCaught \cup {"none"}
    \/ LoadTsError(tsF) \notin LoadTsCaught \cup {"none"}

\* GET /trades?limit=FETCH_LIMIT&offset=off : a slice of the feed
Page(fd, off) ==
    SubSeq(fd, off + 1, IF off + FETCH_LIMIT < Len(fd) THEN off + FETCH_LIMIT
                                                       ELSE Len(fd))

\* t.get("timestamp", 0)
TimestampOr0(t) == IF Has(t, "timestamp") THEN t.timestamp ELSE 0

FreshUnfiltered(batch, since_ts) == batch

FreshWithBoundary(batch, since_ts) ==
    SelectSeq(batch, LAMBDA t : TimestampOr0(t) >= since_ts)

\* fresh = [t for t in batch if t.get("timestamp", 0) > since_ts]
Fresh(batch, since_ts) ==
    SelectSeq(batch, LAMBDA t : TimestampOr0(t) > since_ts)

StopPagingOnPartialOnly(batch, since_ts) ==
    Len(batch) < FETCH_LIMIT

StopPagingOnFullPageToo(batch, since_ts) ==
    \/ Last(batch).timestamp <= since_ts
    \/ Len(batch) <= FETCH_LIMIT

\* oldest_in_batch <= since_ts or len(batch) < FETCH_LIMIT, line 70; the
\* last record of the batch carries a timestamp (line 68 has read it)
StopPaging(batch, since_ts) ==
    \/ Last(batch).timestamp <= since_ts
    \/ Len(batch) < FETCH_LIMIT

NextOffsetByOne(off) == off + 1

\* offset += FETCH_LIMIT, line 72
NextOffset(off) == off + FETCH_LIMIT

\* extract_addresses: {t["proxyWallet"] for t in trades if "proxyWallet" in t}
ExtractAddresses(ts) ==
    {ts[i].proxyWallet : i \in {j \in 1..Len(ts) : Has(ts[j], "proxyWallet")}}

Min(S) == CHOOSE x \in S : \A y \in S : x <= y
Max2(a, b) == IF a >= b THEN a ELSE b

Failed(log) == \E i \in 1..Len(log) : log[i].status # 200
AllOk(log) == \A i \in 1..Len(log) : log[i].status = 200

----------------------------------------------------------------------------
(* The environment of the scanner. *)

\* time passes
Tick ==
    /\ clock < MaxClock
    /\ clock' = clock + 1
    /\ UNCHANGED <<feed, seenFile, tsFile, pc, nextRun, seen_users, last_ts,
                   trades, offset, ts_arg, reqLog, pre, maxTs, quiet,
                   quietRun, runs, interrupts>>
    /\ UNCHANGED volVars
    /\ UNCHANGED gradeVars

\* the venue records a trade now; the feed lists the newest trade first
NewTrade ==
    /\ Len(feed) < MaxFeed
    /\ \E w \in Wallets :
         feed' = <<[timestamp |-> clock, proxyWallet |-> w]>> \o feed
    /\ quiet' = FALSE
    /\ UNCHANGED <<clock, seenFile, tsFile, pc, nextRun, seen_users, last_ts,
                   trades, offset, ts_arg, reqLog, pre, maxTs,
                   quietRun, runs, interrupts>>
    /\ UNCHANGED volVars
    /\ UNCHANGED gradeVars

----------------------------------------------------------------------------
(* job() *)

InJob == pc \in {"fetch", "fetched", "open_seen", "write_seen", "open_ts", "write_ts"}

StartJobWhenDue ==
    /\ pc \notin {"killed", "stopped", "raised"}
    /\ pc = "launch" \/ clock >= nextRun
    /\ IF LoadRaises(seenFile, tsFile)
         THEN pc' = "raised" /\ UNCHANGED <<seen_users, last_ts, runs>>
         ELSE /\ pc' = "fetch"
              /\ seen_users' = LoadSeenUsers(seenFile)
              /\ last_ts' = LoadLastTimestamp(tsFile, clock)
              /\ runs' = runs + 1
    /\ trades' = <<>>
    /\ offset' = 0
    /\ reqLog' = <<>>
    /\ pre' = [seen |-> LoadSeenUsers(seenFile), ts |-> tsFile, at |-> clock]
    /\ quietRun' = FALSE
    /\ UNCHANGED <<clock, feed, seenFile, tsFile, nextRun, ts_arg, maxTs, quiet, interrupts>>
    /\ UNCHANGED volVars
    /\ UNCHANGED gradeVars

\* job() is called at launch (line 100) and by schedule.run_pending() in the
\* main loop (line 104) when the job is due; it loads the checkpoint
\* (lines 82-83) and enters fetch_trades_since (line 53). An exception that
\* leaves job() ends the script: "raised"
StartJob ==
    /\ pc = "launch" \/ (pc = "idle" /\ clock >= nextRun)
    /\ IF LoadRaises(seenFile, tsFile)
         THEN pc' = "raised" /\ UNCHANGED <<seen_users, last_ts, runs>>
         ELSE /\ pc' = "fetch"
              /\ seen_users' = LoadSeenUsers(seenFile)
              /\ last_ts' = LoadLastTimestamp(tsFile, clock)
              /\ runs' = runs + 1
    /\ trades' = <<>>
    /\ offset' = 0
    /\ reqLog' = <<>>
    /\ pre' = [seen |-> LoadSeenUsers(seenFile), ts |-> tsFile, at |-> clock]
    /\ quietRun' = FALSE
    /\ UNCHANGED <<clock, feed, seenFile, tsFile, nextRun, ts_arg, maxTs, quiet, interrupts>>
    /\ UNCHANGED volVars
    /\ UNCHANGED gradeVars

FetchPageRetrying ==
    /\ pc = "fetch"
    /\ \E status \in HttpStatus :
         LET batch == Page(feed, offset)
             attempts == Cardinality({i \in 1..Len(reqLog) : reqLog[i].offset = offset})
         IN  /\ reqLog' = Append(reqLog, [offset |-> offset, status |-> status])
             /\ IF status = 429 /\ attempts + 1 < 4
                  THEN pc' = "fetch" /\ UNCHANGED <<trades, offset, runs>>
                  ELSE IF status # 200 \/ batch = <<>>
                  THEN pc' = "fetched" /\ UNCHANGED <<trades, offset, runs>>
                  ELSE /\ trades' = trades \o Fresh(batch, last_ts)
                       /\ IF ~Has(Last(batch), "timestamp")
                            THEN pc' = "raised" /\ runs' = 0 /\ UNCHANGED offset
                            ELSE IF StopPaging(batch, last_ts)
                            THEN pc' = "fetched" /\ UNCHANGED <<offset, runs>>
                            ELSE /\ pc' = "fetch"
                                 /\ offset' = NextOffset(offset)
                                 /\ UNCHANGED runs
    /\ UNCHANGED <<clock, feed, seenFile, tsFile, nextRun, seen_users, last_ts,
                   ts_arg, pre, maxTs, quiet,
                   quietRun, interrupts>>
    /\ UNCHANGED volVars
    /\ UNCHANGED gradeVars

\* one iteration of the loop of fetch_trades_since (lines 54-72); line 68,
\* batch[-1]["timestamp"], raises KeyError when the last record of the page
\* has no timestamp, and the exception leaves job()
FetchPage ==
    /\ pc = "fetch"
    /\ \E status \in HttpStatus :
         LET batch == Page(feed, offset)
         IN  /\ reqLog' = Append(reqLog, [offset |-> offset, status |-> status])
             /\ IF status # 200 \/ batch = <<>>
                  THEN pc' = "fetched" /\ UNCHANGED <<trades, offset, runs>>
                  ELSE /\ trades' = trades \o Fresh(batch, last_ts)
                       /\ IF ~Has(Last(batch), "timestamp")
                            THEN pc' = "raised" /\ runs' = 0 /\ UNCHANGED offset
                            ELSE IF StopPaging(batch, last_ts)
                            THEN pc' = "fetched" /\ UNCHANGED <<offset, runs>>
                            ELSE /\ pc' = "fetch"
                                 /\ offset' = NextOffset(offset)
                                 /\ UNCHANGED runs
    /\ UNCHANGED <<clock, feed, seenFile, tsFile, nextRun, seen_users, last_ts,
                   ts_arg, pre, maxTs, quiet,
                   quietRun, interrupts>>
    /\ UNCHANGED volVars
    /\ UNCHANGED gradeVars

DiscoverKeepingOnlyNew ==
    /\ pc = "fetched"
    /\ LET new_addrs == ExtractAddresses(trades) \ seen_users
       IN  IF new_addrs # {}
             THEN seen_users' = new_addrs /\ pc' = "open_seen"
             ELSE seen_users' = seen_users /\ pc' = "open_ts"
    /\ UNCHANGED <<clock, feed, seenFile, tsFile, nextRun, last_ts, trades,
                   offset, ts_arg, reqLog, pre, maxTs, quiet,
                   quietRun, runs, interrupts>>
    /\ UNCHANGED volVars
    /\ UNCHANGED gradeVars

\* job() lines 85-94: the new addresses, and the branch on them
Discover ==
    /\ pc = "fetched"
    /\ LET new_addrs == ExtractAddresses(trades) \ seen_users
       IN  IF new_addrs # {}
             THEN seen_users' = seen_users \cup new_addrs /\ pc' = "open_seen"
             ELSE seen_users' = seen_users /\ pc' = "open_ts"
    /\ UNCHANGED <<clock, feed, seenFile, tsFile, nextRun, last_ts, trades,
                   offset, ts_arg, reqLog, pre, maxTs, quiet,
                   quietRun, runs, interrupts>>
    /\ UNCHANGED volVars
    /\ UNCHANGED gradeVars

\* save_seen_users line 35: open(..., "w") creates or truncates the file
SaveSeenOpen ==
    /\ pc = "open_seen"
    /\ seenFile' = [exists |-> TRUE, lines |-> {}]
    /\ pc' = "write_seen"
    /\ UNCHANGED <<clock, feed, tsFile, nextRun, seen_users, last_ts, trades,
                   offset, ts_arg, reqLog, pre, maxTs, quiet,
                   quietRun, runs, interrupts>>
    /\ UNCHANGED volVars
    /\ UNCHANGED gradeVars

\* save_seen_users lines 36-37: the next line of sorted(users) reaches the
\* file; after the last one the file is closed. (An interruption closes or
\* drops the file with the lines written so far: a prefix of the sorted set.)
SaveSeenWrite ==
    /\ pc = "write_seen"
    /\ LET u == Min(seen_users \ seenFile.lines)
       IN  /\ seenFile' = [seenFile EXCEPT !.lines = @ \cup {u}]
           /\ pc' = IF seen_users \ seenFile.lines = {u} THEN "open_ts"
                                                       ELSE "write_seen"
    /\ UNCHANGED <<clock, feed, tsFile, nextRun, seen_users, last_ts, trades,
                   offset, ts_arg, reqLog, pre, maxTs, quiet,
                   quietRun, runs, interrupts>>
    /\ UNCHANGED volVars
    /\ UNCHANGED gradeVars

SaveTsOpenNewestTrade ==
    /\ pc = "open_ts"
    /\ ts_arg' = IF trades = <<>> THEN 0 ELSE trades[1].timestamp
    /\ tsFile' = [kind |-> "empty", val |-> 0]
    /\ quietRun' = quiet
    /\ quiet' = TRUE
    /\ pc' = "write_ts"
    /\ UNCHANGED <<clock, feed, seenFile, nextRun, seen_users, last_ts, trades,
                   offset, reqLog, pre, maxTs, runs, interrupts>>
    /\ UNCHANGED volVars
    /\ UNCHANGED gradeVars

\* job() line 96: int(utc_now().timestamp()) is taken, then
\* save_last_timestamp line 48: open(..., "w") creates or truncates the file
SaveTsOpen ==
    /\ pc = "open_ts"
    /\ ts_arg' = clock
    /\ tsFile' = [kind |-> "empty", val |-> 0]
    /\ quietRun' = quiet
    /\ quiet' = TRUE
    /\ pc' = "write_ts"
    /\ UNCHANGED <<clock, feed, seenFile, nextRun, seen_users, last_ts, trades,
                   offset, reqLog, pre, maxTs, runs, interrupts>>
    /\ UNCHANGED volVars
    /\ UNCHANGED gradeVars

\* save_last_timestamp line 49 and the return of job(); the schedule then
\* sets the job's next run one interval after now (lines 101, 104)
SaveTsWrite ==
    /\ pc = "write_ts"
    /\ tsFile' = [kind |-> "int", val |-> ts_arg]
    /\ maxTs' = Max2(maxTs, ts_arg)
    /\ nextRun' = clock + SCAN_INTERVAL_MIN
    /\ pc' = "idle"
    /\ seen_users' = {}
    /\ last_ts' = 0
    /\ trades' = <<>>
    /\ offset' = 0
    /\ ts_arg' = 0
    /\ reqLog' = <<>>
    /\ runs' = runs - 1
    /\ UNCHANGED <<clock, feed, seenFile, pre, quiet, quietRun, interrupts>>
    /\ UNCHANGED volVars
    /\ UNCHANGED gradeVars

\* the process is interrupted (KeyboardInterrupt, a signal) wherever it is:
\* "killed" inside job(), "stopped" outside it
Interrupt ==
    /\ pc \notin {"killed", "stopped", "raised"}
    /\ interrupts < MaxInterrupts
    /\ interrupts' = interrupts + 1
    /\ pc' = IF InJob THEN "killed" ELSE "stopped"
    /\ runs' = 0
    /\ quiet' = FALSE
    /\ quietRun' = FALSE
    /\ last_ts' = 0
    /\ trades' = <<>>
    /\ offset' = 0
    /\ ts_arg' = 0
    /\ reqLog' = <<>>
    /\ UNCHANGED <<clock, feed, seenFile, tsFile, nextRun, seen_users, pre, maxTs>>
    /\ UNCHANGED volVars
    /\ UNCHANGED gradeVars

\* the script is started again: lines 99-100
Restart ==
    /\ pc \in {"killed", "stopped", "raised"}
    /\ pc' = "launch"
    /\ nextRun' = 0
    /\ seen_users' = {}
    /\ UNCHANGED <<clock, feed, seenFile, tsFile, last_ts, trades, offset,
                   ts_arg, reqLog, pre, maxTs, quiet,
                   quietRun, runs, interrupts>>
    /\ UNCHANGED volVars
    /\ UNCHANGED gradeVars

----------------------------------------------------------------------------
(* The scanner process. *)

VolIdle ==
    /\ amount_fields = [isStr |-> FALSE, names |-> <<>>]
    /\ volN = 0
    /\ skip = 0
    /\ page = 0
    /\ total = 0
    /\ volPc = "none"
    /\ volLog = <<>>

GradeIdle ==
    /\ raw_metrics = <<>>
    /\ grades = <<>>
    /\ grades_sorted = <<>>
    /\ gradePc = "none"

ScanLocalsIdle ==
    /\ nextRun = 0
    /\ seen_users = {}
    /\ trades = <<>>
    /\ offset = 0
    /\ ts_arg = 0
    /\ reqLog = <<>>
    /\ maxTs = -1
    /\ quiet = FALSE
    /\ quietRun = FALSE
    /\ runs = 0
    /\ interrupts = 0

\* the script starts with no checkpoint files and an empty feed
Init ==
    /\ clock = 0
    /\ feed = <<>>
    /\ seenFile = [exists |-> FALSE, lines |-> {}]
    /\ tsFile = [kind |-> "absent", val |-> 0]
    /\ pc = "launch"
    /\ last_ts = 0
    /\ pre = [seen |-> {}, ts |-> [kind |-> "absent", val |-> 0], at |-> 0]
    /\ ScanLocalsIdle
    /\ VolIdle
    /\ GradeIdle

Next ==
    \/ Tick
    \/ NewTrade
    \/ StartJob
    \/ FetchPage
    \/ Discover
    \/ SaveSeenOpen
    \/ SaveSeenWrite
    \/ SaveTsOpen
    \/ SaveTsWrite
    \/ Interrupt
    \/ Restart

Spec == Init /\ [][Next]_vars

\* an iteration of the loop whose request is answered 200
FetchPageOk == FetchPage /\ Last(reqLog').status = 200

\* the scanner is left to run and the venue answers every request with 200
NextAllOk ==
    \/ Tick
    \/ NewTrade
    \/ StartJob
    \/ FetchPageOk
    \/ Discover
    \/ SaveSeenOpen
    \/ SaveSeenWrite
    \/ SaveTsOpen
    \/ SaveTsWrite

SpecAllOk == Init /\ [][NextAllOk]_vars

----------------------------------------------------------------------------
(* fetch_trades_since(since_ts) on a feed that does not change. *)

Trade(t, w) == [timestamp |-> t, proxyWallet |-> w]

\* the timestamps of n trades, newest first, none newer than hi
RECURSIVE StampsOfLen(_, _)
StampsOfLen(n, hi) ==
    IF n = 0 THEN {<<>>}
    ELSE UNION {{<<t>> \o rest : rest \in StampsOfLen(n - 1, t)} : t \in 0..hi}

\* a feed with these timestamps; the wallets take turns, so that
\* neighbouring trades differ
FeedOf(stamps) ==
    [i \in 1..Len(stamps) |-> Trade(stamps[i], 1 + (i % NumWallets))]

InitFetch ==
    /\ clock = MaxClock
    /\ feed \in {FeedOf(st) : st \in UNION {StampsOfLen(n, MaxClock) : n \in 0..MaxFetchFeed}}
    /\ last_ts \in (0 - SCAN_INTERVAL_MIN)..MaxClock
    /\ seenFile = [exists |-> FALSE, lines |-> {}]
    /\ tsFile = [kind |-> "absent", val |-> 0]
    /\ pc = "fetch"
    /\ pre = [seen |-> {}, ts |-> [kind |-> "absent", val |-> 0], at |-> 0]
    /\ ScanLocalsIdle
    /\ VolIdle
    /\ GradeIdle

NextFetch == FetchPage

SpecFetch == InitFetch /\ [][NextFetch]_vars

\* the loop of fetch_trades_since runs on its own thread of control and every
\* request returns (timeout=30, line 57): an iteration that can be taken is taken
SpecFetchLive == SpecFetch /\ WF_vars(FetchPage)

----------------------------------------------------------------------------
(* One run of job() at launch: the checkpoint files are in any state, one  *)
(* record of the feed may lack a field, and the feed spells addresses in   *)
(* lower case and in mixed case.                                           *)

\* an address is a hex string; wallet w spelled in lower case is w, spelled
\* with upper-case digits it is Upper(w), which sorted() puts first
Upper(w) == 0 - w

\* str.lower()
Lower(a) == IF a < 0 THEN 0 - a ELSE a

\* the address in the i-th record: each wallet trades twice in a row, first
\* under its lower-case spelling, then under the other
JobWalletAt(i) ==
    LET w == 1 + (((i - 1) \div 2) % NumWallets)
    IN  IF i % 2 = 1 THEN w ELSE Upper(w)

\* the feeds with these timestamps in which at most one record lacks its
\* timestamp or its proxyWallet
JobFeedsOf(stamps) ==
    {[i \in 1..Len(stamps) |->
         IF i = k /\ key = "timestamp" THEN [proxyWallet |-> JobWalletAt(i)]
         ELSE IF i = k /\ key = "proxyWallet" THEN [timestamp |-> stamps[i]]
         ELSE Trade(stamps[i], JobWalletAt(i))] :
       k \in 0..Len(stamps), key \in {"timestamp", "proxyWallet"}}

\* seen_users.txt: absent, empty, or holding an address
JobSeenFiles ==
    {[exists |-> FALSE, lines |-> {}], [exists |-> TRUE, lines |-> {}],
     [exists |-> TRUE, lines |-> {1}]}

\* last_check.txt: absent, empty, holding text that is no integer, or a timestamp
JobTsFiles ==
    {[kind |-> k, val |-> 0] : k \in {"absent", "empty", "text"}}
        \cup {[kind |-> "int", val |-> v] : v \in 0..MaxClock}

InitJob ==
    /\ clock = MaxClock
    /\ \E n \in 0..MaxJobFeed : \E st \in StampsOfLen(n, MaxClock) :
          feed \in JobFeedsOf(st)
    /\ seenFile \in JobSeenFiles
    /\ tsFile \in JobTsFiles
    /\ pc = "launch"
    /\ last_ts = 0
    /\ pre = [seen |-> {}, ts |-> [kind |-> "absent", val |-> 0], at |-> 0]
    /\ ScanLocalsIdle
    /\ VolIdle
    /\ GradeIdle

NextJob ==
    \/ StartJob
    \/ FetchPage
    \/ Discover
    \/ SaveSeenOpen
    \/ SaveSeenWrite
    \/ SaveTsOpen
    \/ SaveTsWrite

SpecJob == InitJob /\ [][NextJob]_vars

----------------------------------------------------------------------------
(* query_additional_volume (grade_users.py) *)

\* the two calls of main(), lines 159-160: a list of field names, or one name
\* as a plain string
AmountFieldsOfCalls ==
    { [isStr |-> FALSE, names |-> <<"tradeAmount", "feeAmount">>],
      [isStr |-> TRUE, names |-> <<"amountsAdded">>] }

\* Python's amount_fields == 'name': a list never equals a string
EqualsStr(af, name) == af.isStr /\ af.names = <<name>>

\* in the subgraph amountsAdded is a list of amounts (line 126 iterates over
\* it); tradeAmount and feeAmount are single amounts
FieldIsList(f) == f = "amountsAdded"

\* the number of items of the page at skip sk, of n items in all
PageLen(n, sk) ==
    IF n - sk >= FIRST THEN FIRST ELSE IF n > sk THEN n - sk ELSE 0

\* the raw sum of a page of k items: every amount is 1 raw unit, and a list
\* of amounts holds two of them (the code divides each page's sum by 1e6)
PageSum(af, k) ==
    IF EqualsStr(af, "amountsAdded") THEN 2 * k ELSE Len(af.names) * k

\* lines 104-109
VolEnter ==
    /\ volPc = "called"
    /\ amount_fields' = IF amount_fields.isStr
                          THEN [isStr |-> FALSE, names |-> amount_fields.names]
                          ELSE amount_fields
    /\ total' = 0
    /\ skip' = 0
    /\ page' = 0
    /\ volPc' = "loop"
    /\ UNCHANGED <<volN, volLog>>
    /\ UNCHANGED scanVars
    /\ UNCHANGED gradeVars

VolPageStopOnShort ==
    /\ volPc = "loop"
    /\ LET k == PageLen(volN, skip)
       IN  /\ volLog' = Append(volLog, [skip |-> skip, n |-> k])
           /\ IF k = 0
                THEN volPc' = "returned" /\ UNCHANGED <<total, skip, page>>
                ELSE IF ~EqualsStr(amount_fields, "amountsAdded")
                        /\ \E i \in 1..Len(amount_fields.names) :
                              FieldIsList(amount_fields.names[i])
                THEN volPc' = "raised" /\ UNCHANGED <<total, skip, page>>
                ELSE /\ total' = total + PageSum(amount_fields, k)
                     /\ skip' = skip + FIRST
                     /\ page' = page + 1
                     /\ volPc' = IF page + 1 < max_pages /\ k = FIRST
                                   THEN "loop" ELSE "returned"
    /\ UNCHANGED <<amount_fields, volN>>
    /\ UNCHANGED scanVars
    /\ UNCHANGED gradeVars

\* one iteration of the loop, lines 110-130, and the return of line 131 when
\* the loop ends; float() of a list raises TypeError (line 128)
VolPage ==
    /\ volPc = "loop"
    /\ LET k == PageLen(volN, skip)
       IN  /\ volLog' = Append(volLog, [skip |-> skip, n |-> k])
           /\ IF k = 0
                THEN volPc' = "returned" /\ UNCHANGED <<total, skip, page>>
                ELSE IF ~EqualsStr(amount_fields, "amountsAdded")
                        /\ \E i \in 1..Len(amount_fields.names) :
                              FieldIsList(amount_fields.names[i])
                THEN volPc' = "raised" /\ UNCHANGED <<total, skip, page>>
                ELSE /\ total' = total + PageSum(amount_fields, k)
                     /\ skip' = skip + FIRST
                     /\ page' = page + 1
                     /\ volPc' = IF page + 1 < max_pages THEN "loop" ELSE "returned"
    /\ UNCHANGED <<amount_fields, volN>>
    /\ UNCHANGED scanVars
    /\ UNCHANGED gradeVars

InitVol ==
    /\ clock = 0
    /\ feed = <<>>
    /\ seenFile = [exists |-> FALSE, lines |-> {}]
    /\ tsFile = [kind |-> "absent", val |-> 0]
    /\ pc = "none"
    /\ last_ts = 0
    /\ pre = [seen |-> {}, ts |-> [kind |-> "absent", val |-> 0], at |-> 0]
    /\ ScanLocalsIdle
    /\ amount_fields \in AmountFieldsOfCalls
    /\ volN \in 0..MaxItems
    /\ skip = 0
    /\ page = 0
    /\ total = 0
    /\ volPc = "called"
    /\ volLog = <<>>
    /\ GradeIdle

NextVol ==
    \/ VolEnter
    \/ VolPage

SpecVol == InitVol /\ [][NextVol]_vars

----------------------------------------------------------------------------
(* process_grades (process_grades.py). Amounts are in units of 100 USDC,   *)
(* win rates in percent, scores in tenths of a point, rois in 1/10000.     *)

\* Python's round() of the fraction n / d, d > 0: to the nearest integer,
\* a tie to the even one
RoundHalfEven(n, d) ==
    LET q == n \div d
        r == n % d
    IN  IF 2 * r < d THEN q
        ELSE IF 2 * r > d THEN q + 1
        ELSE IF q % 2 = 0 THEN q ELSE q + 1

\* score_user: 100 * (0.4 * pnl_score + 0.3 * win_rate + 0.2 * volume_score
\* + 0.1 * roi), rounded to one decimal; roi is the fraction roi.num / roi.den.
\* The caps of 10000 and 100000 USDC are 100 and 1000 units. In tenths the
\* score is 4 * P + 3 * W + V / 5 + 100 * roi, here over the denominator
\* 5 * roi.den
score_user(metrics) ==
    LET P == IF metrics.pnl < 0 THEN 0
             ELSE IF metrics.pnl > 100 THEN 100 ELSE metrics.pnl
        V == IF metrics.volume > 1000 THEN 1000 ELSE metrics.volume
        W == metrics.win_rate
        d == metrics.roi.den
    IN  RoundHalfEven(20 * P * d + 15 * W * d + V * d + 500 * metrics.roi.num,
                      5 * d)

KeptIfNotLosing(metrics) == metrics.volume > 0 /\ metrics.pnl >= 0

\* the two tests a row has to pass, lines 16 and 19
Kept(metrics) == metrics.volume > 0 /\ metrics.pnl > 0

\* the row appended for an item that passes, lines 17-27
GradeRow(item) ==
    LET metrics == item.metrics
        roi == [num |-> metrics.pnl, den |-> metrics.volume]
    IN  [wallet |-> item.wallet,
         pnl |-> metrics.pnl,
         win_rate |-> metrics.win_rate,
         volume |-> metrics.volume,
         roi |-> RoundHalfEven(10000 * metrics.pnl, metrics.volume),
         score |-> score_user([pnl |-> metrics.pnl, win_rate |-> metrics.win_rate,
                               volume |-> metrics.volume, roi |-> roi])]

\* the loop of lines 13-27
GradesOf(raw) ==
    LET kept == SelectSeq(raw, LAMBDA item : Kept(item.metrics))
    IN  [i \in 1..Len(kept) |-> GradeRow(kept[i])]

InsertBeforeTies(g, sorted) ==
    LET k == Cardinality({i \in 1..Len(sorted) : sorted[i].score > g.score})
    IN  SubSeq(sorted, 1, k) \o <<g>> \o SubSeq(sorted, k + 1, Len(sorted))

\* a row takes its place in a list sorted by falling score: behind the rows
\* that score as much or more, as in Python's stable sort with reverse=True
InsertSorted(g, sorted) ==
    LET k == Cardinality({i \in 1..Len(sorted) : sorted[i].score >= g.score})
    IN  SubSeq(sorted, 1, k) \o <<g>> \o SubSeq(sorted, k + 1, Len(sorted))

\* sorted(grades, key=lambda g: g["score"], reverse=True), line 35
RECURSIVE SortedByScore(_)
SortedByScore(gs) ==
    IF gs = <<>> THEN <<>>
    ELSE InsertSorted(Last(gs), SortedByScore(SubSeq(gs, 1, Len(gs) - 1)))

\* process_grades, lines 11-40: both lists are built and written
ProcessGrades ==
    /\ gradePc = "called"
    /\ grades' = GradesOf(raw_metrics)
    /\ grades_sorted' = SortedByScore(GradesOf(raw_metrics))
    /\ gradePc' = "done"
    /\ UNCHANGED raw_metrics
    /\ UNCHANGED scanVars
    /\ UNCHANGED volVars

\* the metrics a wallet can come with: a loss, nothing, a small and a large
\* gain; a negative volume, none, a small and a large one; half the markets won
MetricsOfWallets ==
    [pnl : {-5, 0, 5, 200}, win_rate : {50},
     volume : {-10, 0, 10, 2000}]

\* raw_metrics lists the wallets in the order of seen_users.txt; wallet i is
\* the i-th of them
RawMetricsOfLen(n) ==
    {[i \in 1..n |-> [wallet |-> i, metrics |-> ms[i]]] : ms \in [1..n -> MetricsOfWallets]}

InitGrades ==
    /\ clock = 0
    /\ feed = <<>>
    /\ seenFile = [exists |-> FALSE, lines |-> {}]
    /\ tsFile = [kind |-> "absent", val |-> 0]
    /\ pc = "none"
    /\ last_ts = 0
    /\ pre = [seen |-> {}, ts |-> [kind |-> "absent", val |-> 0], at |-> 0]
    /\ ScanLocalsIdle
    /\ VolIdle
    /\ \E n \in 0..MaxGradeList : raw_metrics \in RawMetricsOfLen(n)
    /\ grades = <<>>
    /\ grades_sorted = <<>>
    /\ gradePc = "called"

NextGrades == ProcessGrades

SpecGrades == InitGrades /\ [][NextGrades]_vars

----------------------------------------------------------------------------
(* Properties of the scanner, checked under Spec. *)

\* C1: once a run of job() has passed save_seen_users (or skipped it), and
\* after it has returned, the wallet set read back from seen_users.txt
\* contains every wallet the file held when the run started.
C1_WalletSetOnlyGrows ==
    pc \in {"open_ts", "write_ts", "idle"} => pre.seen \subseteq LoadSeenUsers(seenFile)

\* a run that started with a non-empty file has returned and has added to it
C1_Witness ==
    /\ pc = "idle"
    /\ pre.seen # {}
    /\ pre.seen # LoadSeenUsers(seenFile)

\* C2: a run of job() in which a page request returned a non-200 status
\* leaves the timestamp that last_check.txt held when the run started.
C2_FailedRunKeepsTimestamp ==
    [][(pc = "write_ts" /\ pc' = "idle" /\ Failed(reqLog) /\ pre.ts.kind = "int")
          => tsFile' = pre.ts]_vars

\* C3: when a run returns and no trade was added to the feed since the run
\* before it took its timestamp, the wallet set read back is the set the file
\* held when the run started, and last_check.txt holds an integer taken
\* during this run that is not smaller than the one of the run before.
C3_QuietRerun ==
    (pc = "idle" /\ quietRun) =>
        /\ LoadSeenUsers(seenFile) = pre.seen
        /\ pre.ts.kind = "int"
        /\ tsFile.kind = "int"
        /\ tsFile.val >= pre.ts.val
        /\ tsFile.val >= pre.at
        /\ tsFile.val <= clock

\* a second run over an unchanged, non-empty feed has returned, the wallet
\* file holds wallets, and the timestamp has moved
C3_Witness ==
    /\ pc = "idle"
    /\ quietRun
    /\ feed # <<>>
    /\ LoadSeenUsers(seenFile) # {}
    /\ tsFile.val > pre.ts.val

\* C4: whenever last_check.txt holds a timestamp, it is at least as large as
\* every timestamp an earlier run has written.
C4_TimestampMonotone ==
    tsFile.kind = "int" => tsFile.val >= maxTs

\* a later run has written a larger timestamp over an earlier one
C4_Witness ==
    /\ pc = "idle"
    /\ pre.ts.kind = "int"
    /\ tsFile.kind = "int"
    /\ tsFile.val > pre.ts.val

\* C9: at most one call of job() is in progress, and one is in progress
\* exactly while the process is inside job(); so no run starts, whatever has
\* fallen due, before the run in progress has returned.
C9_NoOverlappingRuns ==
    /\ runs <= 1
    /\ (runs = 1) <=> InJob

\* a scheduled run is in progress and the following tick of the schedule has
\* fallen due during it
C9_Witness ==
    /\ InJob
    /\ runs = 1
    /\ nextRun > 0
    /\ clock >= nextRun + SCAN_INTERVAL_MIN

\* C10: after an interruption inside job(), the wallet set read from
\* seen_users.txt is the set the file held when the run started or the
\* complete set the run was to write.
C10_AllOrNothing ==
    pc = "killed" => LoadSeenUsers(seenFile) \in {pre.seen, seen_users}

----------------------------------------------------------------------------
(* Properties of fetch_trades_since, checked under SpecFetch. *)

FullPages(fd) == Len(fd) \div FETCH_LIMIT

\* the full pages whose last record is not newer than since_ts
StalePages(fd, since_ts) ==
    {k \in 1..FullPages(fd) : fd[k * FETCH_LIMIT].timestamp <= since_ts}

ExpectedRequests(fd, since_ts) ==
    IF StalePages(fd, since_ts) # {} THEN Min(StalePages(fd, since_ts))
                                     ELSE FullPages(fd) + 1

Attempts(log, off) == Cardinality({i \in 1..Len(log) : log[i].offset = off})

\* C5 (as claimed): on a feed of N full pages and one partial page, with
\* every request answered 200, the fetch issues N+1 requests for every since_ts.
C5_AlwaysAllPages ==
    (pc = "fetched" /\ AllOk(reqLog) /\ Len(feed) % FETCH_LIMIT # 0) =>
        Len(reqLog) = FullPages(feed) + 1

\* C5 (amended): with every request answered 200, the fetch issues at most
\* N+1 requests: it stops with the first full page whose last record is not
\* newer than since_ts, and issues all N+1 only when there is no such page.
C5_StopsAtFirstStalePage ==
    (pc = "fetched" /\ AllOk(reqLog)) =>
        /\ Len(reqLog) = ExpectedRequests(feed, last_ts)
        /\ Len(reqLog) <= FullPages(feed) + 1

\* two full pages and a partial one, and the fetch stopped after one request
C5_Witness ==
    /\ pc = "fetched"
    /\ AllOk(reqLog)
    /\ Len(feed) = 2 * FETCH_LIMIT + 1
    /\ Len(reqLog) = 1

----------------------------------------------------------------------------
(* Properties of query_additional_volume, checked under SpecVol. *)

C7_CappedAndNeverRaises ==
    /\ Len(volLog) <= max_pages
    /\ \A i \in 1..Len(volLog) : volLog[i].skip = FIRST * (i - 1)
    /\ volPc # "raised"

----------------------------------------------------------------------------
(* Properties of process_grades, checked under SpecGrades. *)

WalletsOf(rows) == {rows[i].wallet : i \in 1..Len(rows)}

\* C11: when process_grades is done, a wallet is in grades.csv, and in
\* grades_sorted.csv, exactly if its volume and its pnl are both above 0.
C11_OnlyProfitableWithVolume ==
    gradePc = "done" =>
        \A i \in 1..Len(raw_metrics) :
            LET m == raw_metrics[i].metrics
                w == raw_metrics[i].wallet
            IN  /\ (w \in WalletsOf(grades)) <=> (m.volume > 0 /\ m.pnl > 0)
                /\ (w \in WalletsOf(grades_sorted)) <=> (m.volume > 0 /\ m.pnl > 0)

\* of three wallets one was graded, one had no pnl and one had no volume
C11_Witness ==
    /\ gradePc = "done"
    /\ Len(raw_metrics) = 3
    /\ Len(grades) = 1
    /\ \E i \in 1..3 : raw_metrics[i].metrics.pnl = 0 /\ raw_metrics[i].metrics.volume > 0
    /\ \E i \in 1..3 : raw_metrics[i].metrics.pnl > 0 /\ raw_metrics[i].metrics.volume = 0

PosIn(rows, w) == CHOOSE i \in 1..Len(rows) : rows[i].wallet = w

\* C12: grades.csv lists the graded wallets in the order of the input;
\* grades_sorted.csv lists the same rows, each once, by falling score, and
\* rows of equal score in the order they have in grades.csv.
C12_InputOrderAndStableSort ==
    gradePc = "done" =>
        /\ \A i, j \in 1..Len(grades) :
              i < j => PosIn(raw_metrics, grades[i].wallet) < PosIn(raw_metrics, grades[j].wallet)
        /\ Len(grades_sorted) = Len(grades)
        /\ {grades_sorted[i] : i \in 1..Len(grades_sorted)} = {grades[i] : i \in 1..Len(grades)}
        /\ \A i, j \in 1..Len(grades_sorted) :
              i < j =>
                 /\ grades_sorted[i].score >= grades_sorted[j].score
                 /\ grades_sorted[i].score = grades_sorted[j].score =>
                       PosIn(grades, grades_sorted[i].wallet) < PosIn(grades, grades_sorted[j].wallet)

\* three graded wallets: the first two tie below the third, which moved to
\* the front while the two kept their order
C12_Witness ==
    /\ gradePc = "done"
    /\ Len(grades) = 3
    /\ grades[1].score = grades[2].score
    /\ grades[3].score > grades[1].score
    /\ grades_sorted = <<grades[3], grades[1], grades[2]>>

\* C13: every score written lies between 0 and 100 (the rows written have
\* volume > 0, pnl > 0 and a win rate between 0 and 1).
C13_ScoreWithin0And100 ==
    \A i \in 1..Len(grades) : grades[i].score >= 0 /\ grades[i].score <= 1000

----------------------------------------------------------------------------
(* Properties of one run of job(), checked under SpecJob. *)

\* C14: no run of job() is ended by an exception raised while it reads the
\* records of a page, whichever record of the page lacks its timestamp or
\* its proxyWallet.
C14_MalformedRecordNeverAborts ==
    ~(pc = "raised" /\ reqLog # <<>>)

\* C15: job() is never ended by an exception raised while it loads the
\* checkpoint; with last_check.txt absent, empty or holding text that is no
\* integer it starts from now minus the scan interval, else from the stored
\* integer; with seen_users.txt absent it starts from the empty set, else
\* from the lines of the file.
C15_LoadNeverFails ==
    /\ ~(pc = "raised" /\ reqLog = <<>>)
    /\ (pc = "fetch" /\ reqLog = <<>>) =>
          /\ last_ts = IF tsFile.kind = "int" THEN tsFile.val
                                               ELSE clock - SCAN_INTERVAL_MIN
          /\ seen_users = IF seenFile.exists THEN seenFile.lines ELSE {}

\* the checkpoint was loaded from a last_check.txt that holds no integer and
\* with no seen_users.txt
C15_Witness ==
    /\ pc = "fetch"
    /\ reqLog = <<>>
    /\ tsFile.kind = "text"
    /\ ~seenFile.exists
    /\ last_ts = clock - SCAN_INTERVAL_MIN
    /\ seen_users = {}

\* C16: seen_users.txt never holds two entries that differ only in letter case.
C16_CaseNormalized ==
    \A a, b \in LoadSeenUsers(seenFile) : Lower(a) = Lower(b) => a = b

----------------------------------------------------------------------------
(* Further properties of fetch_trades_since, checked under SpecFetch and   *)
(* SpecFetchLive.                                                          *)

\* the i-th request of the log was followed by another, or will be
Followed(i) == i < Len(reqLog) \/ pc = "fetch"

\* C17: the i-th request of a call asks for offset (i - 1) * FETCH_LIMIT, so
\* the first asks for offset 0 and each page that is answered 200, full and
\* not stale moves the offset on by FETCH_LIMIT; a call issues no more
\* requests than the feed has full pages, plus one; and every call returns.
C17_FreshCursorAndTermination ==
    /\ [](/\ \A i \in 1..Len(reqLog) : reqLog[i].offset = (i - 1) * FETCH_LIMIT
          /\ pc = "fetch" => offset = Len(reqLog) * FETCH_LIMIT
          /\ \A i \in 1..Len(reqLog) :
                Followed(i) =>
                   LET batch == Page(feed, reqLog[i].offset)
                   IN  /\ reqLog[i].status = 200
                       /\ Len(batch) = FETCH_LIMIT
                       /\ Last(batch).timestamp > last_ts
          /\ Len(reqLog) <= FullPages(feed) + 1)
    /\ <>(pc = "fetched")

\* a call has returned after three requests, the first two for full pages
\* that were not stale
C17_Witness ==
    /\ pc = "fetched"
    /\ Len(reqLog) = 3
    /\ reqLog[3].offset = 2 * FETCH_LIMIT

C20_ReturnsExactlyTheFresh ==
    (pc = "fetched" /\ AllOk(reqLog)) => trades = Fresh(feed, last_ts)

\* the call returned more than a page of fresh records and left stale ones
C20_Witness ==
    /\ pc = "fetched"
    /\ AllOk(reqLog)
    /\ Len(trades) > FETCH_LIMIT
    /\ Len(trades) < Len(feed)
    /\ trades = Fresh(feed, last_ts)

----------------------------------------------------------------------------
(* A property of the runs of the scanner, checked under SpecAllOk. *)

\* C19: when a run has returned, the wallet of every trade that was added
\* to the feed before that run started, and not before the run before it
\* took its timestamp, is in seen_users.txt.
C19_NoTradeSkipped ==
    (pc = "idle" /\ pre.ts.kind = "int") =>
        \A i \in 1..Len(feed) :
            (feed[i].timestamp >= pre.ts.val /\ feed[i].timestamp < pre.at) =>
                feed[i].proxyWallet \in LoadSeenUsers(seenFile)

====
